---------------------------- MODULE Spec2Model ----------------------------
(***************************************************************************)
(* Model of the SiteFetch MCP server (src/src/index.ts): the blob cache,   *)
(* the metadata index, the fetchSite routine, the tool and resource        *)
(* handlers, and the resource identifier codec.                            *)
(*                                                                         *)
(* Strings are sequences of UTF-16 code units (naturals), as in JavaScript.*)
(* Every `await` of the source is a scheduling point: the code between two *)
(* awaits is one atomic action of the calling handler.                     *)
(***************************************************************************)
EXTENDS Integers, Sequences, FiniteSets, TLC

\* ------------------------------------------------------------------------
\* Bounds of the model
\* ------------------------------------------------------------------------

\* Total number of handler invocations in one behaviour.
MaxCalls == 3

\* Longest URL string drawn by the identifier codec specification.
MaxUrlLen == 2

\* ------------------------------------------------------------------------
\* Resource identifier codec: encodeURIComponent / decodeURIComponent
\* ------------------------------------------------------------------------

\* Code units the codec specification builds its URL strings from:
\* h  /  %  4  e-acute (2 UTF-8 bytes)  U+65E5 (3 bytes)
\* U+D83D U+DE00 (the surrogate pair of U+1F600, 4 bytes; unpaired otherwise)
Alphabet == {104, 47, 37, 52, 233, 26085, 55357, 56832}

\* "sitefetch://"
Scheme == <<115, 105, 116, 101, 102, 101, 116, 99, 104, 58, 47, 47>>

IsHighSurrogate(c) == c >= 55296 /\ c <= 56319
IsLowSurrogate(c) == c >= 56320 /\ c <= 57343

\* Characters encodeURIComponent leaves alone: A-Z a-z 0-9 - _ . ! ~ * ' ( )
IsUnescaped(c) ==
    \/ c >= 65 /\ c <= 90
    \/ c >= 97 /\ c <= 122
    \/ c >= 48 /\ c <= 57
    \/ c \in {45, 95, 46, 33, 126, 42, 39, 40, 41}

HexDigit(n) == IF n < 10 THEN 48 + n ELSE 55 + n

IsHex(c) ==
    \/ c >= 48 /\ c <= 57
    \/ c >= 65 /\ c <= 70
    \/ c >= 97 /\ c <= 102

HexValue(c) ==
    IF c <= 57 THEN c - 48 ELSE IF c <= 70 THEN c - 55 ELSE c - 87

\* "%XX" for one octet
PercentOctet(b) == <<37, HexDigit(b \div 16), HexDigit(b % 16)>>

Utf8Octets(cp) ==
    IF cp < 128 THEN <<cp>>
    ELSE IF cp < 2048 THEN <<192 + (cp \div 64), 128 + (cp % 64)>>
    ELSE IF cp < 65536
         THEN <<224 + (cp \div 4096), 128 + ((cp \div 64) % 64), 128 + (cp % 64)>>
    ELSE <<240 + (cp \div 262144), 128 + ((cp \div 4096) % 64),
           128 + ((cp \div 64) % 64), 128 + (cp % 64)>>

RECURSIVE PercentOctets(_)
PercentOctets(bs) ==
    IF bs = <<>> THEN <<>> ELSE PercentOctet(Head(bs)) \o PercentOctets(Tail(bs))

\* A codec result: the string, or the URIError the built-in throws.
Ok(s) == [ok |-> TRUE, val |-> s]
URIError == [ok |-> FALSE, val |-> <<>>]

\* encodeURIComponent(s), from code unit k on (1-based).
RECURSIVE EncodeFrom(_, _)
EncodeFrom(s, k) ==
    IF k > Len(s) THEN Ok(<<>>)
    ELSE IF IsUnescaped(s[k])
         THEN LET rest == EncodeFrom(s, k + 1)
              IN  IF rest.ok THEN Ok(<<s[k]>> \o rest.val) ELSE URIError
    ELSE IF IsLowSurrogate(s[k]) THEN URIError
    ELSE IF IsHighSurrogate(s[k])
         THEN IF k + 1 > Len(s) \/ ~IsLowSurrogate(s[k + 1]) THEN URIError
              ELSE LET cp == (s[k] - 55296) * 1024 + (s[k + 1] - 56320) + 65536
                       rest == EncodeFrom(s, k + 2)
                   IN  IF rest.ok
                       THEN Ok(PercentOctets(Utf8Octets(cp)) \o rest.val)
                       ELSE URIError
    ELSE LET rest == EncodeFrom(s, k + 1)
         IN  IF rest.ok
             THEN Ok(PercentOctets(Utf8Octets(s[k])) \o rest.val)
             ELSE URIError

encodeURIComponent(s) == EncodeFrom(s, 1)

\* The octet written as "%XX" at position k of s, or -1 when there is none.
OctetAt(s, k) ==
    IF k + 2 <= Len(s) /\ s[k] = 37 /\ IsHex(s[k + 1]) /\ IsHex(s[k + 2])
    THEN HexValue(s[k + 1]) * 16 + HexValue(s[k + 2])
    ELSE -1

\* Number of octets of the UTF-8 sequence that starts with b (0: invalid).
Utf8Length(b) ==
    IF b < 128 THEN 1
    ELSE IF b >= 192 /\ b < 224 THEN 2
    ELSE IF b >= 224 /\ b < 240 THEN 3
    ELSE IF b >= 240 /\ b < 248 THEN 4
    ELSE 0

IsContinuation(b) == b >= 128 /\ b < 192

\* The code point of a UTF-8 sequence of n octets at position k of s, or -1
\* when the octets are missing or are not the valid encoding of a code point.
CodePointAt(s, k, n) ==
    LET b1 == OctetAt(s, k)
        b2 == OctetAt(s, k + 3)
        b3 == OctetAt(s, k + 6)
        b4 == OctetAt(s, k + 9)
    IN  IF n = 1 THEN b1
        ELSE IF n = 2
             THEN IF IsContinuation(b2) /\ (b1 - 192) * 64 + (b2 - 128) >= 128
                  THEN (b1 - 192) * 64 + (b2 - 128) ELSE -1
        ELSE IF n = 3
             THEN LET cp == (b1 - 224) * 4096 + (b2 - 128) * 64 + (b3 - 128)
                  IN  IF /\ IsContinuation(b2) /\ IsContinuation(b3)
                         /\ cp >= 2048
                         /\ ~(cp >= 55296 /\ cp <= 57343)
                      THEN cp ELSE -1
        ELSE LET cp == (b1 - 240) * 262144 + (b2 - 128) * 4096
                         + (b3 - 128) * 64 + (b4 - 128)
             IN  IF /\ IsContinuation(b2) /\ IsContinuation(b3)
                    /\ IsContinuation(b4)
                    /\ cp >= 65536 /\ cp <= 1114111
                 THEN cp ELSE -1

\* The UTF-16 code units of a code point.
Utf16Units(cp) ==
    IF cp < 65536 THEN <<cp>>
    ELSE <<55296 + ((cp - 65536) \div 1024), 56320 + ((cp - 65536) % 1024)>>

\* decodeURIComponent(s), from code unit k on (1-based).
RECURSIVE DecodeFrom(_, _)
DecodeFrom(s, k) ==
    IF k > Len(s) THEN Ok(<<>>)
    ELSE IF s[k] # 37
         THEN LET rest == DecodeFrom(s, k + 1)
              IN  IF rest.ok THEN Ok(<<s[k]>> \o rest.val) ELSE URIError
    ELSE LET b == OctetAt(s, k)
             n == IF b < 0 THEN 0 ELSE Utf8Length(b)
             cp == IF n = 0 THEN -1 ELSE CodePointAt(s, k, n)
         IN  IF cp < 0 THEN URIError
             ELSE LET rest == DecodeFrom(s, k + 3 * n)
                  IN  IF rest.ok THEN Ok(Utf16Units(cp) \o rest.val)
                      ELSE URIError

decodeURIComponent(s) == DecodeFrom(s, 1)

\* `sitefetch://${encodeURIComponent(url)}`
ResourceUri(url) ==
    LET e == encodeURIComponent(url)
    IN  IF e.ok THEN Ok(Scheme \o e.val) ELSE URIError

\* The {url} variable of the template "sitefetch://{url}": the part of the
\* identifier after the scheme.
TemplateVariable(uri) == SubSeq(uri, Len(Scheme) + 1, Len(uri))

\* Variant: the template variable is used as it arrives, undecoded.
DecodedUrlRaw(uri) == Ok(TemplateVariable(uri))

\* The resource read handler's decodedUrl.
DecodedUrl(uri) == decodeURIComponent(TemplateVariable(uri))


\* ------------------------------------------------------------------------
\* Cache files and metadata
\* ------------------------------------------------------------------------

\* "h:/" and "h:/" followed by e-acute
UrlA == <<104, 58, 47>>
UrlB == <<104, 58, 47, 233>>
Urls == {UrlA, UrlB}

\* "h": a string that is not a URL, and every string a request can carry.
Malformed == <<104>>
AllUrls == Urls \cup {Malformed}

\* z.string().url() of the tool schemas: the string parses as a URL, for
\* which it has to start with a scheme and a colon.
IsAlpha(c) == c \in 65..90 \/ c \in 97..122
IsUrl(s) ==
    \E i \in 2..Len(s) :
        /\ s[i] = 58
        /\ IsAlpha(s[1])
        /\ \A j \in 2..(i - 1) :
              IsAlpha(s[j]) \/ s[j] \in 48..57 \/ s[j] \in {43, 45, 46}

\* The strings of the model that the schemas accept.
Accepted == {u \in AllUrls : IsUrl(u)}

\* The handler invocations that can be in flight together.
Procs == {"p1", "p2"}

\* What the crawler can leave in its output file: the complete capture of a
\* site, with a <title> or without one, and a capture cut short.
DocTitled == "<title>T</title>text"
DocPlain == "text"
Truncated == "<title>T</ti"

\* The site behind UrlA has a title, the one behind UrlB has none.
SiteContent(u) == IF u = UrlA THEN DocTitled ELSE DocPlain

\* No file at the path (fs.access / fs.readFile / fs.unlink reject).
NoBlob == "ENOENT"

\* `${md5(url)}.txt`: the digest is taken to be collision-free on Urls.
getFileNameFromUrl(u) == <<"md5", u, ".txt">>

\* path.join(CACHE_DIR, getFileNameFromUrl(url))
getFilePath(u) == <<"~/.cache/sitefetch", getFileNameFromUrl(u)>>

FilePaths == {getFilePath(u) : u \in AllUrls}

extractTitle(c) == IF c = DocTitled THEN "T" ELSE "No title found"

\* The metadata object: a function from file names to records.
EmptyMetadata == [k \in {} |-> 0]

\* Variant: the record is put in a fresh object instead of the loaded one.
SetRecordFresh(m, u, stamp, c) ==
    [k \in {getFileNameFromUrl(u)} |->
        [url |-> u, fetchedAt |-> stamp, title |-> extractTitle(c)]]

\* metadata[fileHash] = { url, fetchedAt, title }
SetRecord(m, u, stamp, c) ==
    [k \in (DOMAIN m) \cup {getFileNameFromUrl(u)} |->
        IF k = getFileNameFromUrl(u)
        THEN [url |-> u, fetchedAt |-> stamp, title |-> extractTitle(c)]
        ELSE m[k]]

\* `title || url` of the two listings: the title unless it is the empty
\* string, and then the url.
TitleOrUrl(r) == IF r.title # "" THEN [title |-> r.title] ELSE [url |-> r.url]

\* Object.entries(metadata).map(...) of the resource list callback.
ResourceList(m) ==
    {[name |-> TitleOrUrl(m[k]),
      uri |-> ResourceUri(m[k].url).val,
      description |-> m[k].fetchedAt] : k \in DOMAIN m}

\* The entries of the list-sites text, one per record (none: the handler
\* answers "No sites have been fetched yet").
SiteList(m) ==
         {[name |-> TitleOrUrl(m[k]),
           url |-> m[k].url,
           uri |-> ResourceUri(m[k].url).val,
           fetchedAt |-> m[k].fetchedAt,
           file |-> getFilePath(m[k].url)] : k \in DOMAIN m}

\* ------------------------------------------------------------------------
\* State
\* ------------------------------------------------------------------------

VARIABLES
    blob,       \* cache directory: file path -> content, or NoBlob
    metaFile,   \* sitefetch_metadata.json, parsed
    corrupt,    \* sitefetch_metadata.json does not parse as JSON
    clock,      \* the wall clock read by new Date()
    calls,      \* handler invocations started so far
    pc,         \* per invocation: the await it is suspended at
    op,         \* per invocation: the handler that runs
    url,        \* per invocation: the url argument (decodedUrl for a read)
    force,      \* per invocation: forceRefresh
    metadata,   \* per invocation: the local `metadata` of fetchSite
    todo,       \* per invocation: entries of the local `metadata` that the
                \* clear-cache loop has yet to visit
    invoked,    \* per invocation: it has run `npx sitefetch`
    result,     \* per invocation: what the handler returns
    pre,        \* the stores when the only invocation in flight started
    captured,   \* urls a fetch has ingested whose file clear-cache has not
                \* unlinked since the crawler wrote it
    fetchedOK,  \* urls a fetch returned content for, and whether every
                \* fetch so far returned content and no clear was called
    removed,    \* urls whose record a clear removed, not ingested since
    cUrl,       \* codec: the url an identifier is built for
    cId,        \* codec: the identifier built
    cOut,       \* codec: the url read back from the identifier
    cPc         \* codec: position

HasRecord(m, u) == getFileNameFromUrl(u) \in DOMAIN m
RecordOf(m, u) == m[getFileNameFromUrl(u)]
BlobOf(u) == blob[getFilePath(u)]

\* loadMetadata: the parsed document, or {} when reading or parsing throws.
loadMetadata == IF corrupt THEN EmptyMetadata ELSE metaFile

sysVars == <<blob, metaFile, corrupt, clock, calls, pc, op, url, force,
             metadata, todo,
             invoked, result, pre, captured, fetchedOK, removed>>
codecVars == <<cUrl, cId, cOut, cPc>>
vars == <<sysVars, codecVars>>

\* What a handler returns: the kind of result, the content it carries, for
\* the two listings the entries, for clear-cache the count, and what became
\* of the context notification ("off" when none was asked for).
Res(k, c, l) ==
    [kind |-> k, content |-> c, listing |-> l, count |-> 0, context |-> "off"]
NoResult == Res("none", "", {})

FetchOps == {"fetch-site", "resource-read"}

\* initializeStorage: the cache directory exists and the metadata file
\* holds {}; no handler runs.
SysInit ==
    /\ blob = [f \in FilePaths |-> NoBlob]
    /\ metaFile = EmptyMetadata
    /\ corrupt = FALSE
    /\ clock = 0
    /\ calls = 0
    /\ pc = [p \in Procs |-> "idle"]
    /\ op = [p \in Procs |-> "none"]
    /\ url = [p \in Procs |-> <<>>]
    /\ force = [p \in Procs |-> FALSE]
    /\ metadata = [p \in Procs |-> EmptyMetadata]
    /\ todo = [p \in Procs |-> {}]
    /\ invoked = [p \in Procs |-> FALSE]
    /\ result = [p \in Procs |-> NoResult]
    /\ pre = <<>>
    /\ captured = {}
    /\ fetchedOK = [urls |-> {}, clean |-> TRUE]
    /\ removed = {}

Init ==
    /\ SysInit
    /\ cUrl = <<>>
    /\ cId = URIError
    /\ cOut = URIError
    /\ cPc = "off"

OthersIdle(p) == \A q \in Procs \ {p} : pc[q] = "idle"

\* The invocation slots are interchangeable: a request takes p2 only while
\* p1 is busy.
FirstFree(p) == p = "p1" \/ pc["p1"] # "idle"

\* Invocation p is suspended at await l and its I/O has completed. A handler
\* that has settled is answered first: the continuation of its promise is a
\* microtask, which runs before any I/O callback resumes another handler or
\* dispatches a request.
At(p, l) ==
    /\ pc[p] = l
    /\ \A q \in Procs : pc[q] \notin {"done", "failed"}

\* A handler starts: the request is dispatched and runs up to its first await.
Begin(p, o, u, f, at) ==
    /\ At(p, "idle")
    /\ FirstFree(p)
    /\ calls < MaxCalls
    /\ calls' = calls + 1
    /\ pc' = [pc EXCEPT ![p] = at]
    /\ op' = [op EXCEPT ![p] = o]
    /\ url' = [url EXCEPT ![p] = u]
    /\ force' = [force EXCEPT ![p] = f]
    /\ pre' = IF OthersIdle(p)
              THEN <<[blob |-> blob, meta |-> metaFile]>>
              ELSE <<>>
    /\ UNCHANGED <<blob, metaFile, clock, metadata, todo, invoked, result,
                   captured, removed, corrupt, codecVars>>

\* A tool is called with a url that fails its schema (lines 168 and 223):
\* the request is answered with an error and the handler does not run.
Reject(p, o, u) ==
    /\ At(p, "idle")
    /\ FirstFree(p)
    /\ calls < MaxCalls
    /\ u \notin Accepted
    /\ calls' = calls + 1
    /\ pc' = [pc EXCEPT ![p] = "failed"]
    /\ op' = [op EXCEPT ![p] = o]
    /\ url' = [url EXCEPT ![p] = u]
    /\ result' = [result EXCEPT ![p] = Res("error:invalid-url", "", {})]
    /\ pre' = IF OthersIdle(p)
              THEN <<[blob |-> blob, meta |-> metaFile]>>
              ELSE <<>>
    /\ UNCHANGED <<blob, metaFile, clock, force, metadata, todo, invoked,
                   captured, fetchedOK, removed, corrupt, codecVars>>

\* The handler's promise settles and the invocation is over.
Return(p) ==
    /\ pc[p] \in {"done", "failed"}
    /\ pc' = [pc EXCEPT ![p] = "idle"]
    /\ op' = [op EXCEPT ![p] = "none"]
    /\ url' = [url EXCEPT ![p] = <<>>]
    /\ force' = [force EXCEPT ![p] = FALSE]
    /\ metadata' = [metadata EXCEPT ![p] = EmptyMetadata]
    /\ todo' = [todo EXCEPT ![p] = {}]
    /\ invoked' = [invoked EXCEPT ![p] = FALSE]
    /\ result' = [result EXCEPT ![p] = NoResult]
    /\ pre' = <<>>
    /\ UNCHANGED <<blob, metaFile, clock, calls, captured, fetchedOK, removed,
                   corrupt, codecVars>>


\* ------------------------------------------------------------------------
\* fetchSite (lines 76-121), run by the fetch-site tool and the resource read
\* ------------------------------------------------------------------------

\* fetch-site tool called with (url, forceRefresh).
CallFetchSite(p) ==
    \E u \in Urls, f \in BOOLEAN :
        /\ u \in Accepted
        /\ Begin(p, "fetch-site", u, f, "load")
        /\ UNCHANGED fetchedOK

\* The identifiers a client can ask for: those the server hands out.
Identifiers == {ResourceUri(u).val : u \in Urls}

\* The identifiers of the strings of the model with their decodedUrl.
DecodedOf == {<<ResourceUri(u).val, DecodedUrl(ResourceUri(u).val)>> :
                 u \in {v \in AllUrls : ResourceUri(v).ok}}

\* Variant: the read refreshes, fetchSite(decodedUrl, true).
ReadResourceForced(p, uri) ==
    \E d \in DecodedOf :
        /\ d[1] = uri
        /\ d[2].ok
        /\ Begin(p, "resource-read", d[2].val, TRUE, "load")
    /\ UNCHANGED fetchedOK

\* lines 298-304: the resource read decodes the template variable and calls
\* fetchSite(decodedUrl); a variable that does not decode is rethrown.
ReadResource(p, uri) ==
    \E d \in DecodedOf :
        /\ d[1] = uri
        /\ d[2].ok
        /\ Begin(p, "resource-read", d[2].val, FALSE, "load")
    /\ UNCHANGED fetchedOK

\* Resource read called with an identifier.
CallReadResource(p) ==
    /\ At(p, "idle")
    /\ calls < MaxCalls
    /\ \E uri \in Identifiers : ReadResource(p, uri)

\* execAsync(`npx sitefetch ...`) is called: the crawler process starts. It
\* runs for longer than the clock's resolution.
Spawn(p) ==
    /\ pc' = [pc EXCEPT ![p] = "exec"]
    /\ invoked' = [invoked EXCEPT ![p] = TRUE]
    /\ clock' = clock + 1

\* What extra.sendNotification can come to: the notification goes out, the
\* send rejects, or the client offers no sendNotification.
Notifications == {"sent", "threw", "unavailable"}

\* Variant: a rejected send is not caught.
addToContextUncaught(n) ==
    IF n = "sent" THEN "true" ELSE IF n = "threw" THEN "thrown" ELSE "false"

\* addToContext (lines 135-161): true once the notification is out, false
\* without sendNotification (line 156) and when the send throws (line 159).
addToContext(n) == IF n = "sent" THEN "true" ELSE "false"

\* The notifications a handler that got its content may be asked for: only
\* the fetch-site tool takes addToContext, "off" being addToContext: false.
\* The argument is read at line 181 and not before, so it is drawn there.
Asked(o) == IF o = "fetch-site" THEN Notifications \cup {"off"} ELSE {"off"}

\* fetchSite returns the content it read and the handler goes on to its end
\* (lines 175-207 for the tool, lines 307-315 for the resource read): the
\* identifier is built, the notification is sent when asked for, and the
\* content is answered; whatever throws is answered as an error (line 208).
Deliver(p, c) ==
    /\ fetchedOK' = [fetchedOK EXCEPT !.urls = @ \cup {url[p]}]
    /\ IF op[p] = "fetch-site" /\ ~ResourceUri(url[p]).ok
       THEN /\ pc' = [pc EXCEPT ![p] = "failed"]
            /\ result' = [result EXCEPT ![p] = Res("error:handler", c, {})]
       ELSE \E n \in Asked(op[p]) :
              LET a == IF n = "off" THEN "false" ELSE addToContext(n)
              IN  /\ pc' = [pc EXCEPT
                         ![p] = IF a = "thrown" THEN "failed" ELSE "done"]
                  /\ result' = [result EXCEPT
                         ![p] = [Res(IF a = "thrown" THEN "error:handler"
                                     ELSE "content", c, {})
                                   EXCEPT !.context = n]]

\* Variant: forceRefresh is not looked at, every call goes to fs.access.
FetchLoadMetadataUnforced(p) ==
    /\ At(p, "load")
    /\ op[p] \in FetchOps
    /\ metadata' = [metadata EXCEPT ![p] = loadMetadata]
    /\ pc' = [pc EXCEPT ![p] = "access"]
    /\ UNCHANGED <<blob, metaFile, clock, calls, op, url, force, todo, invoked,
                   result, pre, captured, fetchedOK, removed,
                   corrupt, codecVars>>

\* line 81: loadMetadata resolves; a forced refresh goes on to the crawler,
\* anything else to fs.access.
FetchLoadMetadata(p) ==
    /\ At(p, "load")
    /\ op[p] \in FetchOps
    /\ metadata' = [metadata EXCEPT ![p] = loadMetadata]
    /\ IF force[p]
       THEN Spawn(p)
       ELSE /\ pc' = [pc EXCEPT ![p] = "access"]
            /\ UNCHANGED <<invoked, clock>>
    /\ UNCHANGED <<blob, metaFile, calls, op, url, force, todo, result, pre,
                   captured, fetchedOK, removed, corrupt, codecVars>>

\* Variant: the outcome of fs.access is ignored and the crawler always runs.
FetchAccessIgnored(p) ==
    /\ At(p, "access")
    /\ op[p] \in FetchOps
    /\ Spawn(p)
    /\ UNCHANGED <<blob, metaFile, calls, op, url, force, metadata, todo,
                   result, pre, captured, fetchedOK, removed,
                   corrupt, codecVars>>

\* line 86: fs.access settles; when it rejects the catch falls through to
\* the crawler.
FetchAccess(p) ==
    /\ At(p, "access")
    /\ op[p] \in FetchOps
    /\ IF blob[getFilePath(url[p])] # NoBlob
       THEN /\ pc' = [pc EXCEPT ![p] = "hitread"]
            /\ UNCHANGED <<invoked, clock>>
       ELSE Spawn(p)
    /\ UNCHANGED <<blob, metaFile, calls, op, url, force, metadata, todo,
                   result, pre, captured, fetchedOK, removed,
                   corrupt, codecVars>>

\* Variant: a cache hit stamps the record of the url with the time of the
\* access.
FetchReadCachedTouches(p) ==
    /\ At(p, "hitread")
    /\ op[p] \in FetchOps
    /\ IF blob[getFilePath(url[p])] # NoBlob
       THEN /\ Deliver(p, blob[getFilePath(url[p])])
            /\ metaFile' = SetRecord(metaFile, url[p], clock,
                                     blob[getFilePath(url[p])])
            /\ metadata' = [metadata EXCEPT ![p] = EmptyMetadata]
            /\ UNCHANGED <<invoked, clock>>
       ELSE /\ Spawn(p)
            /\ UNCHANGED <<result, fetchedOK, metadata, metaFile>>
    /\ UNCHANGED <<blob, calls, op, url, force, todo, pre,
                   captured, removed, corrupt, codecVars>>

\* line 88: `return await fs.readFile` inside the try: the cached content is
\* returned, or the rejection is caught and the crawler runs.
FetchReadCached(p) ==
    /\ At(p, "hitread")
    /\ op[p] \in FetchOps
    /\ IF blob[getFilePath(url[p])] # NoBlob
       THEN /\ Deliver(p, blob[getFilePath(url[p])])
            /\ metadata' = [metadata EXCEPT ![p] = EmptyMetadata]
            /\ UNCHANGED <<invoked, clock>>
       ELSE /\ Spawn(p)
            /\ UNCHANGED <<result, fetchedOK, metadata>>
    /\ UNCHANGED <<blob, metaFile, calls, op, url, force, todo, pre,
                   captured, removed, corrupt, codecVars>>

\* The crawler writes to its -o path, the cache file itself: part of the
\* output is on disk before the process ends.
CrawlerWritesPart(p) ==
    /\ At(p, "exec")
    /\ blob[getFilePath(url[p])] # Truncated
    /\ blob' = [blob EXCEPT ![getFilePath(url[p])] = Truncated]
    /\ UNCHANGED <<metaFile, clock, calls, pc, op, url, force, metadata, todo,
                   invoked, result, pre, captured, fetchedOK, removed,
                   corrupt, codecVars>>

\* The crawler exits with status 0, its output complete: execAsync resolves.
CrawlerSucceeds(p) ==
    /\ At(p, "exec")
    /\ blob' = [blob EXCEPT ![getFilePath(url[p])] = SiteContent(url[p])]
    /\ pc' = [pc EXCEPT ![p] = "readresult"]
    /\ UNCHANGED <<metaFile, clock, calls, op, url, force, metadata, todo,
                   invoked, result, pre, captured, fetchedOK, removed,
                   corrupt, codecVars>>

\* The crawler fails: execAsync rejects, lines 117-119 rethrow.
CrawlerFails(p) ==
    /\ At(p, "exec")
    /\ pc' = [pc EXCEPT ![p] = "failed"]
    /\ result' = [result EXCEPT ![p] = Res("error:crawler", "", {})]
    /\ metadata' = [metadata EXCEPT ![p] = EmptyMetadata]
    /\ fetchedOK' = [fetchedOK EXCEPT !.clean = FALSE]
    /\ UNCHANGED <<blob, metaFile, clock, calls, op, url, force,
                   todo, invoked, pre, captured, removed, corrupt, codecVars>>

\* Variant: the record is filed under a key made of the url and the time of
\* the fetch, so that every fetch adds an entry.
FetchReadResultAppends(p) ==
    /\ At(p, "readresult")
    /\ IF blob[getFilePath(url[p])] # NoBlob
       THEN /\ result' = [result EXCEPT
                  ![p] = Res("pending", blob[getFilePath(url[p])], {})]
            /\ metadata' = [metadata EXCEPT
                  ![p] = [k \in (DOMAIN metadata[p])
                              \cup {getFileNameFromUrl(url[p] \o <<clock>>)}
                          |->
                            IF k = getFileNameFromUrl(url[p] \o <<clock>>)
                            THEN [url |-> url[p], fetchedAt |-> clock,
                                  title |-> extractTitle(
                                      blob[getFilePath(url[p])])]
                            ELSE metadata[p][k]]]
            /\ pc' = [pc EXCEPT ![p] = "save"]
            /\ UNCHANGED fetchedOK
       ELSE /\ result' = [result EXCEPT ![p] = Res("error:read", "", {})]
            /\ pc' = [pc EXCEPT ![p] = "failed"]
            /\ metadata' = [metadata EXCEPT ![p] = EmptyMetadata]
            /\ fetchedOK' = [fetchedOK EXCEPT !.clean = FALSE]
    /\ UNCHANGED <<blob, metaFile, clock, calls, op, url, force, todo,
                   invoked, pre, captured, removed, corrupt, codecVars>>

\* lines 102-114: the output file is read back, the record is built with the
\* current time and saveMetadata is called; a rejected read is rethrown.
FetchReadResult(p) ==
    /\ At(p, "readresult")
    /\ IF blob[getFilePath(url[p])] # NoBlob
       THEN /\ result' = [result EXCEPT
                  ![p] = Res("pending", blob[getFilePath(url[p])], {})]
            /\ metadata' = [metadata EXCEPT
                  ![p] = SetRecord(metadata[p], url[p], clock,
                                   blob[getFilePath(url[p])])]
            /\ pc' = [pc EXCEPT ![p] = "save"]
            /\ UNCHANGED fetchedOK
       ELSE /\ result' = [result EXCEPT ![p] = Res("error:read", "", {})]
            /\ pc' = [pc EXCEPT ![p] = "failed"]
            /\ metadata' = [metadata EXCEPT ![p] = EmptyMetadata]
            /\ fetchedOK' = [fetchedOK EXCEPT !.clean = FALSE]
    /\ UNCHANGED <<blob, metaFile, clock, calls, op, url, force, todo,
                   invoked, pre, captured, removed, corrupt, codecVars>>

\* line 63 under line 114: the metadata file is overwritten with the local
\* object; line 116 returns the content.
FetchSaveMetadata(p) ==
    /\ At(p, "save")
    /\ metaFile' = metadata[p]
    /\ corrupt' = FALSE
    /\ Deliver(p, result[p].content)
    /\ metadata' = [metadata EXCEPT ![p] = EmptyMetadata]
    /\ captured' = IF BlobOf(url[p]) # NoBlob
                   THEN captured \cup {url[p]}
                   ELSE captured
    /\ removed' = removed \ {url[p]}
    /\ UNCHANGED <<blob, clock, calls, op, url, force, todo,
                   invoked, pre, codecVars>>

\* fs.writeFile of the metadata rejects (disk full, permissions): rethrown.
FetchSaveFails(p) ==
    /\ At(p, "save")
    /\ pc' = [pc EXCEPT ![p] = "failed"]
    /\ result' = [result EXCEPT ![p] = Res("error:write", "", {})]
    /\ metadata' = [metadata EXCEPT ![p] = EmptyMetadata]
    /\ fetchedOK' = [fetchedOK EXCEPT !.clean = FALSE]
    /\ UNCHANGED <<blob, metaFile, clock, calls, op, url, force,
                   todo, invoked, pre, captured, removed, corrupt, codecVars>>


\* ------------------------------------------------------------------------
\* clear-cache tool (lines 369-401)
\* ------------------------------------------------------------------------

CallClearCache(p) ==
    /\ Begin(p, "clear-cache", <<>>, FALSE, "load")
    /\ fetchedOK' = [fetchedOK EXCEPT !.clean = FALSE]

\* Variant: the count is of the entries whose file is there to delete.
ClearLoadMetadataCountsFiles(p) ==
    /\ At(p, "load")
    /\ op[p] = "clear-cache"
    /\ todo' = [todo EXCEPT
           ![p] = {loadMetadata[k].url : k \in DOMAIN loadMetadata}]
    /\ result' = [result EXCEPT
           ![p] = [Res("pending", "", {}) EXCEPT
                      !.count = Cardinality({k \in DOMAIN loadMetadata :
                                    BlobOf(loadMetadata[k].url) # NoBlob})]]
    /\ pc' = [pc EXCEPT
           ![p] = IF DOMAIN loadMetadata = {} THEN "clearsave" ELSE "unlink"]
    /\ UNCHANGED <<blob, metaFile, clock, calls, op, url, force, metadata,
                   invoked, pre, captured, fetchedOK, removed, corrupt,
                   codecVars>>

\* lines 371-375: loadMetadata resolves, the count is taken and the loop
\* over the entries starts.
ClearLoadMetadata(p) ==
    /\ At(p, "load")
    /\ op[p] = "clear-cache"
    /\ todo' = [todo EXCEPT
           ![p] = {loadMetadata[k].url : k \in DOMAIN loadMetadata}]
    /\ result' = [result EXCEPT
           ![p] = [Res("pending", "", {}) EXCEPT
                      !.count = Cardinality(DOMAIN loadMetadata)]]
    /\ pc' = [pc EXCEPT
           ![p] = IF DOMAIN loadMetadata = {} THEN "clearsave" ELSE "unlink"]
    /\ UNCHANGED <<blob, metaFile, clock, calls, op, url, force, metadata,
                   invoked, pre, captured, fetchedOK, removed,
                   corrupt, codecVars>>

\* lines 376-382: fs.unlink of one entry's file settles; a rejection (no
\* such file) is logged and the loop goes on.
ClearUnlink(p) ==
    /\ At(p, "unlink")
    /\ \E u \in todo[p] :
        /\ blob' = [blob EXCEPT ![getFilePath(u)] = NoBlob]
        /\ todo' = [todo EXCEPT ![p] = todo[p] \ {u}]
        /\ captured' = captured \ {u}
        /\ pc' = [pc EXCEPT
               ![p] = IF todo[p] = {u} THEN "clearsave" ELSE "unlink"]
    /\ UNCHANGED <<metaFile, clock, calls, op, url, force, metadata, invoked,
                   result, pre, fetchedOK, removed, corrupt, codecVars>>

\* line 386: saveMetadata({}) settles and the count is reported.
ClearSaveMetadata(p) ==
    /\ At(p, "clearsave")
    /\ metaFile' = EmptyMetadata
    /\ corrupt' = FALSE
    /\ removed' = removed \cup {metaFile[k].url : k \in DOMAIN metaFile}
    /\ pc' = [pc EXCEPT ![p] = "done"]
    /\ result' = [result EXCEPT ![p].kind = "cleared"]
    /\ UNCHANGED <<blob, clock, calls, op, url, force, metadata, todo,
                   invoked, pre, captured, fetchedOK, codecVars>>

\* line 386 rejects: lines 394-399 answer with an error.
ClearSaveFails(p) ==
    /\ At(p, "clearsave")
    /\ pc' = [pc EXCEPT ![p] = "failed"]
    /\ result' = [result EXCEPT ![p] = Res("error:write", "", {})]
    /\ UNCHANGED <<blob, metaFile, clock, calls, op, url, force, metadata,
                   todo, invoked, pre, captured, fetchedOK, removed,
                   corrupt, codecVars>>

\* ------------------------------------------------------------------------
\* list-sites tool (lines 328-361) and resource list (lines 282-292)
\* ------------------------------------------------------------------------

CallListSites(p) ==
    /\ Begin(p, "list-sites", <<>>, FALSE, "load")
    /\ UNCHANGED fetchedOK

CallListResources(p) ==
    /\ Begin(p, "resource-list", <<>>, FALSE, "load")
    /\ UNCHANGED fetchedOK

\* line 330: loadMetadata resolves; the sentinel or the list is returned.
ListSitesLoad(p) ==
    /\ At(p, "load")
    /\ op[p] = "list-sites"
    /\ pc' = [pc EXCEPT ![p] = "done"]
    /\ result' = [result EXCEPT
           ![p] = IF Cardinality(DOMAIN loadMetadata) = 0
                  THEN Res("no-sites", "", {})
                  ELSE Res("sites", "", SiteList(loadMetadata))]
    /\ UNCHANGED <<blob, metaFile, clock, calls, op, url, force, metadata,
                   todo, invoked, pre, captured, fetchedOK, removed,
                   corrupt, codecVars>>

\* line 284: loadMetadata resolves; one resource per entry is returned.
ListResourcesLoad(p) ==
    /\ At(p, "load")
    /\ op[p] = "resource-list"
    /\ pc' = [pc EXCEPT ![p] = "done"]
    /\ result' = [result EXCEPT
           ![p] = Res("resources", "", ResourceList(loadMetadata))]
    /\ UNCHANGED <<blob, metaFile, clock, calls, op, url, force, metadata,
                   todo, invoked, pre, captured, fetchedOK, removed,
                   corrupt, codecVars>>

\* ------------------------------------------------------------------------
\* add-to-context tool (lines 225-275)
\* ------------------------------------------------------------------------

CallAddToContext(p) ==
    \E u \in Urls :
        /\ u \in Accepted
        /\ Begin(p, "add-to-context", u, FALSE, "ctxaccess")
        /\ UNCHANGED fetchedOK

\* Variant: without the file the tool fetches the site.
AddToContextAccessFetches(p) ==
    /\ At(p, "ctxaccess")
    /\ IF blob[getFilePath(url[p])] # NoBlob
       THEN /\ pc' = [pc EXCEPT ![p] = "ctxread"]
            /\ UNCHANGED <<invoked, clock>>
       ELSE Spawn(p)
    /\ UNCHANGED <<blob, metaFile, calls, op, url, force, metadata, todo,
                   result, pre, captured, fetchedOK, removed, corrupt,
                   codecVars>>

\* lines 230-240: fs.access settles; without the file the tool answers with
\* an error.
AddToContextAccess(p) ==
    /\ At(p, "ctxaccess")
    /\ IF blob[getFilePath(url[p])] # NoBlob
       THEN /\ pc' = [pc EXCEPT ![p] = "ctxread"]
            /\ UNCHANGED result
       ELSE /\ pc' = [pc EXCEPT ![p] = "failed"]
            /\ result' = [result EXCEPT ![p] = Res("error:not-cached", "", {})]
    /\ UNCHANGED <<blob, metaFile, clock, calls, op, url, force, metadata,
                   todo, invoked, pre, captured, fetchedOK, removed,
                   corrupt, codecVars>>

\* lines 242-267: fs.readFile settles and the notification is sent; the
\* tool answers that the content was added, or with an error that it was
\* not. A rejected read is answered with an error (line 268).
AddToContextRead(p) ==
    /\ At(p, "ctxread")
    /\ IF blob[getFilePath(url[p])] # NoBlob
       THEN \E n \in Notifications :
              LET a == addToContext(n)
              IN  /\ pc' = [pc EXCEPT
                         ![p] = IF a = "true" THEN "done" ELSE "failed"]
                  /\ result' = [result EXCEPT
                         ![p] = [Res(IF a = "true" THEN "added"
                                     ELSE IF a = "false" THEN "error:not-added"
                                     ELSE "error:handler",
                                     blob[getFilePath(url[p])], {})
                                   EXCEPT !.context = n]]
       ELSE /\ pc' = [pc EXCEPT ![p] = "failed"]
            /\ result' = [result EXCEPT ![p] = Res("error:read", "", {})]
    /\ UNCHANGED <<blob, metaFile, clock, calls, op, url, force, metadata,
                   todo, invoked, pre, captured, fetchedOK, removed,
                   corrupt, codecVars>>

\* ------------------------------------------------------------------------
\* The server: handlers interleave at their awaits
\* ------------------------------------------------------------------------

\* A request arrives.
Call(p) ==
    \/ CallFetchSite(p)
    \/ CallReadResource(p)
    \/ CallClearCache(p)
    \/ CallListSites(p)
    \/ CallListResources(p)
    \/ CallAddToContext(p)

\* A handler goes on from the await it is suspended at.
Resume(p) ==
    \/ FetchLoadMetadata(p)
    \/ FetchAccess(p)
    \/ FetchReadCached(p)
    \/ CrawlerWritesPart(p)
    \/ CrawlerSucceeds(p)
    \/ CrawlerFails(p)
    \/ FetchReadResult(p)
    \/ FetchSaveMetadata(p)
    \/ FetchSaveFails(p)
    \/ ClearLoadMetadata(p)
    \/ ClearUnlink(p)
    \/ ClearSaveMetadata(p)
    \/ ClearSaveFails(p)
    \/ ListSitesLoad(p)
    \/ ListResourcesLoad(p)
    \/ AddToContextAccess(p)
    \/ AddToContextRead(p)
    \/ Return(p)

Next == \E p \in Procs : Call(p) \/ Resume(p)

Spec == Init /\ [][Next]_vars

\* The same server with one request at a time: a handler starts only when
\* no other is in flight.
SeqCallFetchSite(p) == OthersIdle(p) /\ CallFetchSite(p)
SeqCallReadResource(p) == OthersIdle(p) /\ CallReadResource(p)
SeqCallClearCache(p) == OthersIdle(p) /\ CallClearCache(p)
SeqCallListSites(p) == OthersIdle(p) /\ CallListSites(p)
SeqCallListResources(p) == OthersIdle(p) /\ CallListResources(p)
SeqCallAddToContext(p) == OthersIdle(p) /\ CallAddToContext(p)

NextSeq ==
    \E p \in Procs :
        \/ SeqCallFetchSite(p)
        \/ SeqCallReadResource(p)
        \/ SeqCallClearCache(p)
        \/ SeqCallListSites(p)
        \/ SeqCallListResources(p)
        \/ SeqCallAddToContext(p)
        \/ Resume(p)

SpecSeq == Init /\ [][NextSeq]_vars

\* The same server, one request at a time, with what it has to stand up to:
\* requests that carry a string that is not a URL, and a metadata file that
\* something (an interrupted write, an edit by hand) left unparseable.
FaultCallFetchSite(p) == OthersIdle(p) /\ Reject(p, "fetch-site", Malformed)
FaultCallAddToContext(p) ==
    OthersIdle(p) /\ Reject(p, "add-to-context", Malformed)
FaultCallReadResource(p) ==
    OthersIdle(p) /\ ReadResource(p, Scheme \o Malformed)

DamageMetadata ==
    /\ \A p \in Procs : pc[p] = "idle"
    /\ ~corrupt
    /\ corrupt' = TRUE
    /\ UNCHANGED <<blob, metaFile, clock, calls, pc, op, url, force, metadata,
                   todo, invoked, result, pre, captured, fetchedOK, removed,
                   codecVars>>

NextFault ==
    \/ DamageMetadata
    \/ \E p \in Procs :
        \/ FaultCallFetchSite(p)
        \/ FaultCallAddToContext(p)
        \/ FaultCallReadResource(p)
        \/ SeqCallFetchSite(p)
        \/ SeqCallReadResource(p)
        \/ SeqCallClearCache(p)
        \/ SeqCallListSites(p)
        \/ SeqCallListResources(p)
        \/ SeqCallAddToContext(p)
        \/ Resume(p)

SpecFault == Init /\ [][NextFault]_vars


\* ------------------------------------------------------------------------
\* The identifier codec on its own: an identifier is built for a url as
\* lines 137-138, 175-176 and 288 build it, and read back as lines 301-302
\* read it.
\* ------------------------------------------------------------------------

UrlStrings == UNION {[1..n -> Alphabet] : n \in 0..MaxUrlLen}

InitCodec ==
    /\ SysInit
    /\ cUrl \in UrlStrings
    /\ cId = URIError
    /\ cOut = URIError
    /\ cPc = "url"

\* `sitefetch://${encodeURIComponent(url)}`, which throws on a string that
\* is not well-formed UTF-16.
BuildIdentifier ==
    /\ cPc = "url"
    /\ cId' = ResourceUri(cUrl)
    /\ cPc' = IF ResourceUri(cUrl).ok THEN "identifier" ELSE "threw"
    /\ UNCHANGED <<cUrl, cOut, sysVars>>

\* decodeURIComponent(urlValue) of the resource read handler.
ReadIdentifier ==
    /\ cPc = "identifier"
    /\ cOut' = DecodedUrl(cId.val)
    /\ cPc' = "decoded"
    /\ UNCHANGED <<cUrl, cId, sysVars>>

NextCodec == BuildIdentifier \/ ReadIdentifier

SpecCodec == InitCodec /\ [][NextCodec]_vars


\* ------------------------------------------------------------------------
\* Properties
\* ------------------------------------------------------------------------

\* C1 (Atomic failure): when fetchSite has thrown because the crawler failed,
\* the cache files and the metadata file are what they were when the call
\* started. Stated for a call that ran alone (SpecSeq).
C1_AtomicFailure ==
    \A p \in Procs :
        (pc[p] = "failed" /\ result[p].kind = "error:crawler" /\ pre # <<>>)
            => (blob = pre[1].blob /\ metaFile = pre[1].meta)

\* C2 (Concurrent same-key fetch): at no time are two calls for the same url
\* both between the start of the crawler and the save of the record, so the
\* crawler runs once for two simultaneous calls.
Capturing == {"exec", "readresult", "save"}

C2_OneCapturePerKey ==
    \A p, q \in Procs :
        (p # q /\ pc[p] \in Capturing /\ pc[q] \in Capturing)
            => url[p] # url[q]

\* C3 (No lost index updates): as long as every fetch has returned content
\* and nothing was cleared, the index holds the record of every url a fetch
\* has ingested: no save of the index has dropped the record of another.
C3_NoLostUpdate ==
    fetchedOK.clean => \A u \in captured : HasRecord(metaFile, u)

\* C4 (Clear does not resurrect records): a record that clear-cache removed
\* is in the index again only when a fetch of that very url has ingested it
\* since.
C4_NoResurrection ==
    \A u \in removed : ~HasRecord(metaFile, u)

\* C5 (Index implies blob): whenever every handler has returned, each record
\* of the index has its cache file. (The claim says so of every state; the
\* states between two handlers are the least it asks for.)
C5_IndexImpliesBlob ==
    (\A p \in Procs : pc[p] = "idle")
        => \A k \in DOMAIN metaFile : BlobOf(metaFile[k].url) # NoBlob

\* C6 (Idempotent hit): a fetchSite(url, false) that looks for the file of a
\* url captured and not cleared does not start the crawler, and what it
\* returns is the content of the file. A url is captured and not cleared
\* when a fetch has saved its record and clear-cache has not unlinked the
\* file since the crawler wrote it.
C6_IdempotentHit ==
    [][\A p \in Procs :
          (pc[p] \in {"access", "hitread"} /\ url[p] \in captured)
              => /\ pc'[p] \in {"access", "hitread", "done"}
                 /\ invoked'[p] = FALSE
                 /\ pc'[p] = "done"
                      => /\ result'[p].kind = "content"
                         /\ result'[p].content = BlobOf(url[p])]_vars

C6_Witness ==
    \E p \in Procs :
        /\ pc[p] = "done"
        /\ op[p] = "fetch-site"
        /\ ~force[p]
        /\ ~invoked[p]
        /\ url[p] \in captured
        /\ result[p] = Res("content", SiteContent(url[p]), {})

\* C7 (Forced refresh always re-invokes): a fetchSite(url, true) starts the
\* crawler as soon as the metadata is loaded, whatever the cache holds; the
\* record it builds has a fetchedAt later than the record it loaded, and a
\* successful call leaves that record in the index.
C7_ForcedRefresh ==
    [][\A p \in Procs :
          force[p] =>
              /\ (pc[p] = "load" /\ pc'[p] # "load")
                    => (pc'[p] = "exec" /\ invoked'[p] /\ clock' = clock + 1)
              /\ (pc[p] = "readresult" /\ pc'[p] = "save")
                    => /\ HasRecord(metadata'[p], url[p])
                       /\ RecordOf(metadata'[p], url[p]).url = url[p]
                       /\ HasRecord(metadata[p], url[p])
                            => RecordOf(metadata'[p], url[p]).fetchedAt
                                 > RecordOf(metadata[p], url[p]).fetchedAt
              /\ (pc[p] = "save" /\ pc'[p] = "done")
                    => /\ invoked[p]
                       /\ HasRecord(metaFile', url[p])
                       /\ RecordOf(metaFile', url[p])
                            = RecordOf(metadata[p], url[p])]_vars

C7_Witness ==
    \E p \in Procs :
        /\ pc[p] = "done"
        /\ op[p] = "fetch-site"
        /\ force[p]
        /\ invoked[p]
        /\ pre # <<>>
        /\ HasRecord(pre[1].meta, url[p])
        /\ pre[1].blob[getFilePath(url[p])] # NoBlob
        /\ HasRecord(metaFile, url[p])
        /\ RecordOf(metaFile, url[p]).fetchedAt
             > RecordOf(pre[1].meta, url[p]).fetchedAt

\* C8 (Clear is total and resilient): when a clear-cache that ran alone has
\* answered, the index is empty (list-sites answers "No sites have been
\* fetched yet") and no cache file is left.
C8_ClearIsTotal ==
    \A p \in Procs :
        (pc[p] = "done" /\ op[p] = "clear-cache")
            => /\ Cardinality(DOMAIN metaFile) = 0
               /\ \A f \in FilePaths : blob[f] = NoBlob

\* C9 (Listing matches index): when every call so far was a fetch that
\* returned content, or a listing, a listing has one entry for each url
\* fetched and no other, and the identifiers of its entries decode to the
\* urls fetched.
C9_ListingMatchesIndex ==
    \A p \in Procs :
        (pc[p] = "done" /\ op[p] \in {"list-sites", "resource-list"}
                        /\ fetchedOK.clean)
            => /\ Cardinality(result[p].listing)
                    = Cardinality(fetchedOK.urls)
               /\ op[p] = "list-sites"
                    => ((result[p].kind = "no-sites") = (fetchedOK.urls = {}))
               /\ \A e \in result[p].listing : DecodedUrl(e.uri).ok
               /\ {DecodedUrl(e.uri).val : e \in result[p].listing}
                    = fetchedOK.urls

C9_Witness ==
    \E p \in Procs :
        /\ pc[p] = "done"
        /\ op[p] = "list-sites"
        /\ fetchedOK.clean
        /\ fetchedOK.urls = Urls
        /\ Cardinality(result[p].listing) = Cardinality(Urls)

\* C10 (Identifier bijection): the url read back from the identifier built
\* for a url is that url, and no other url string has the same identifier.
\* No identifier is built exactly for the strings with an unpaired
\* surrogate, on which encodeURIComponent throws.
WellFormed(s) ==
    \A i \in 1..Len(s) :
        /\ IsHighSurrogate(s[i]) => (i < Len(s) /\ IsLowSurrogate(s[i + 1]))
        /\ IsLowSurrogate(s[i]) => (i > 1 /\ IsHighSurrogate(s[i - 1]))

C10_IdentifierBijection ==
    /\ cPc = "decoded" => cOut = Ok(cUrl)
    /\ cPc = "identifier" =>
          \A v \in UrlStrings : v # cUrl => ResourceUri(v) # cId
    /\ cPc = "threw" => ~WellFormed(cUrl)
    /\ cPc \in {"identifier", "decoded"} => WellFormed(cUrl)

\* "%" followed by e-acute: a url with an escape character and a non-ASCII one.
C10_Witness ==
    /\ cPc = "decoded"
    /\ cUrl = <<37, 233>>
    /\ cId = Ok(Scheme \o <<37, 50, 53, 37, 67, 51, 37, 65, 57>>)
    /\ cOut = Ok(cUrl)


\* C11 (add-to-context does not fetch): no step of the add-to-context tool
\* changes a cache file or the metadata file or starts the crawler, whether
\* the file of its url exists or not; when fs.access finds no file the tool
\* answers with the not-cached error.
C11_AddToContextFrame ==
    [][\A p \in Procs :
          (op[p] = "add-to-context" /\ pc'[p] # pc[p])
              => /\ blob' = blob
                 /\ metaFile' = metaFile
                 /\ invoked'[p] = FALSE
                 /\ (pc[p] = "ctxaccess" /\ BlobOf(url[p]) = NoBlob)
                      => /\ pc'[p] = "failed"
                         /\ result'[p].kind = "error:not-cached"]_vars

C11_Witness ==
    \E p \in Procs :
        /\ pc[p] = "failed"
        /\ op[p] = "add-to-context"
        /\ result[p].kind = "error:not-cached"
        /\ BlobOf(url[p]) = NoBlob
        /\ DOMAIN metaFile # {}
        /\ \E f \in FilePaths : blob[f] # NoBlob

\* C12 (Metadata corruption is surfaced): a fetch, a listing or a clear that
\* loaded the index while the metadata file was unparseable has failed with
\* the corruption reported, and a fetch that returned content has not
\* dropped a record the index held when it started. The file is damaged only
\* between requests, so a handler past its load has loaded the damaged file.
Loaders == FetchOps \cup {"list-sites", "resource-list", "clear-cache"}

C12_CorruptionSurfaced ==
    \A p \in Procs :
        /\ (corrupt /\ op[p] \in Loaders /\ pc[p] \notin {"idle", "load"}
                /\ result[p].kind # "error:invalid-url")
              => (pc[p] = "failed" /\ result[p].kind = "error:corrupt")
        /\ (pc[p] = "done" /\ op[p] \in FetchOps /\ pre # <<>>)
              => DOMAIN pre[1].meta \subseteq DOMAIN metaFile

\* C13 (Best-effort notification): when fetchSite has returned its content
\* to the fetch-site tool and the tool was asked to add it to the context,
\* the tool answers with the content and not with an error, whether the
\* notification went out, threw or could not be sent; the step changes no
\* cache file, and the metadata file holds what fetchSite saved whatever
\* became of the notification.
C13_BestEffortNotify ==
    [][\A p \in Procs :
          (/\ op[p] = "fetch-site"
           /\ pc[p] \in {"hitread", "save"}
           /\ pc'[p] \in {"done", "failed"}
           /\ result'[p].kind # "error:write"
           /\ result'[p].context \in Notifications)
              => /\ pc'[p] = "done"
                 /\ result'[p].kind = "content"
                 /\ blob' = blob
                 /\ metaFile' = IF pc[p] = "save" THEN metadata[p]
                                ELSE metaFile]_vars

C13_Witness ==
    \E p \in Procs :
        /\ pc[p] = "done"
        /\ op[p] = "fetch-site"
        /\ invoked[p]
        /\ result[p].context = "threw"
        /\ result[p].kind = "content"
        /\ result[p].content = BlobOf(url[p])
        /\ HasRecord(metaFile, url[p])

\* C14 (clear-cache count): a clear-cache that has answered reports the
\* number of records the metadata file held when the call started, whether
\* the files of those records were there to unlink or not.
C14_ClearCount ==
    \A p \in Procs :
        (pc[p] = "done" /\ op[p] = "clear-cache" /\ pre # <<>>)
            => /\ result[p].kind = "cleared"
               /\ result[p].count = Cardinality(DOMAIN pre[1].meta)

C14_Witness ==
    \E p \in Procs :
        /\ pc[p] = "done"
        /\ op[p] = "clear-cache"
        /\ pre # <<>>
        /\ result[p].count = 1
        /\ \E k \in DOMAIN pre[1].meta :
              pre[1].blob[getFilePath(pre[1].meta[k].url)] = NoBlob

\* C15 (No partially written blob is observed): a cache hit of fetchSite or
\* an add-to-context that has read the file of a url while the crawler of
\* another call was writing that file has not read a capture cut short. A
\* settled handler is answered before any other moves, so the other call is
\* where it was when the file was read.
C15_NoPartialRead ==
    \A p, q \in Procs :
        (/\ p # q
         /\ pc[q] = "exec"
         /\ url[q] = url[p]
         /\ pc[p] \in {"done", "failed"}
         /\ op[p] \in FetchOps \cup {"add-to-context"}
         /\ ~invoked[p])
            => result[p].content # Truncated

\* C16 (Cache hit is read-only): the steps of a fetchSite(url, false) that
\* finds the file of its url (the load of the metadata, the fs.access that
\* resolves and the fs.readFile that returns) change no cache file and leave
\* the metadata file as it is, fetchedAt of the url included; the content
\* returned is that of the file.
C16_HitReadOnly ==
    [][\A p \in Procs :
          (/\ op[p] \in FetchOps
           /\ ~force[p]
           /\ \/ pc[p] = "load" /\ pc'[p] = "access"
              \/ pc[p] = "access" /\ pc'[p] = "hitread"
              \/ pc[p] = "hitread" /\ pc'[p] \in {"done", "failed"})
              => /\ blob' = blob
                 /\ metaFile' = metaFile
                 /\ pc'[p] \in {"done", "failed"}
                      => /\ pc'[p] = "done"
                         /\ result'[p].content = BlobOf(url[p])]_vars

C16_Witness ==
    \E p \in Procs :
        /\ pc[p] = "done"
        /\ op[p] = "fetch-site"
        /\ ~force[p]
        /\ ~invoked[p]
        /\ pre # <<>>
        /\ HasRecord(pre[1].meta, url[p])
        /\ metaFile = pre[1].meta
        /\ blob = pre[1].blob
        /\ result[p].content = pre[1].blob[getFilePath(url[p])]
        /\ result[p].content = SiteContent(url[p])

\* C17 (Display name fallback): in a listing that has been answered, the
\* entry of a url whose captured content has a title is named by that title,
\* and the entry of a url whose content has none is named by the url.
NameOf(u) ==
    IF SiteContent(u) = DocTitled THEN [title |-> "T"] ELSE [url |-> u]

C17_DisplayName ==
    \A p \in Procs :
        /\ (pc[p] = "done" /\ op[p] = "list-sites")
              => \A e \in result[p].listing : e.name = NameOf(e.url)
        /\ (pc[p] = "done" /\ op[p] = "resource-list")
              => \A e \in result[p].listing :
                    \E u \in Urls : /\ e.uri = ResourceUri(u).val
                                    /\ e.name = NameOf(u)

\* C18 (Invalid URLs touch no store): a fetch-site, an add-to-context or a
\* resource read whose url is not a URL has been refused with the
\* invalid-url error as soon as it was dispatched: it never waits on a file
\* or on the crawler, it has not run the crawler, and the cache files and
\* the metadata file are what they were when it was called.
C18_InvalidUrlRejected ==
    \A p \in Procs :
        (/\ op[p] \in FetchOps \cup {"add-to-context"}
         /\ pc[p] # "idle"
         /\ url[p] \notin Accepted)
            => /\ pc[p] = "failed"
               /\ result[p].kind = "error:invalid-url"
               /\ ~invoked[p]
               /\ pre # <<>> => (blob = pre[1].blob /\ metaFile = pre[1].meta)

KeyedByUrl(m) ==
    /\ \A k \in DOMAIN m : k = getFileNameFromUrl(m[k].url)
    /\ Cardinality(DOMAIN m) = Cardinality({m[k].url : k \in DOMAIN m})

C20_OneRecordPerUrl ==
    /\ KeyedByUrl(metaFile)
    /\ \A p \in Procs : KeyedByUrl(metadata[p])

C20_Witness ==
    \E p \in Procs :
        /\ pc[p] = "done"
        /\ force[p]
        /\ pre # <<>>
        /\ HasRecord(pre[1].meta, url[p])
        /\ Cardinality(DOMAIN pre[1].meta) = 2
        /\ Cardinality(DOMAIN metaFile) = 2
        /\ RecordOf(metaFile, url[p]).fetchedAt
              > RecordOf(pre[1].meta, url[p]).fetchedAt

=========================================================================
